---- MODULE Spec2Model ----
(***************************************************************************)
(* State-machine model of mic-monitor-tray.py: the shared state guarded by *)
(* _lock, the pactl gateway, the tray callbacks (toggle_source,            *)
(* _on_activate, toggle_left_click_setting, refresh_callback, quit_app),   *)
(* the two watcher loops, update_icon and main.                            *)
(*                                                                         *)
(* Granularity: one action per lock acquisition, per locked block (the     *)
(* block's statements and the release, plus the thread-local branching     *)
(* that follows it), per pactl call and per write to the tray icon.        *)
(* A Python Optional[int] is a set: {} is None, {n} is n.  A dict is the   *)
(* sequence of its <<key, value>> pairs in insertion order.                *)
(***************************************************************************)
EXTENDS Integers, Sequences, FiniteSets, TLC

\* ------------------------------------------------------------------ bounds
\* How many loopback modules the sound server loads in one run.
MaxModules == 2
\* Spec only: how many operations (callbacks, watcher iterations, changes of
\* the sound server) one run starts.
MaxOps == 3
\* Samples of the audio capture stream lie in -MaxAmp..MaxAmp.
MaxAmp == 2
\* A chunk read from the capture stream holds at most MaxWindow samples.
MaxWindow == 2

\* Input sources the sound server lists (get_short_sources after filtering).
Sources == {"A", "B"}
ExtSourceList == <<"A", "B">>

\* Threads: main, the tray's callback threads, the thread refresh_callback
\* starts, and the two daemon loops main starts.
UiThreads == {"ui1", "ui2"}
Threads == {"main", "ui1", "ui2", "refresh", "refresh2", "mute", "audio"}

\* ----------------------------------------------------------------- helpers
DictKeys(d) == {d[i][1] : i \in DOMAIN d}
DictGet(d, k) == {d[i][2] : i \in {j \in DOMAIN d : d[j][1] = k}}
DictValues(d) == [i \in DOMAIN d |-> d[i][2]]
\* Variant of dict.pop that drops the oldest entry whatever its key.
DictPopFirst(d, k) == IF d = <<>> THEN d ELSE Tail(d)
DictPop(d, k) == SelectSeq(d, LAMBDA p : p[1] # k)
DictSet(d, k, v) ==
    IF k \in DictKeys(d)
    THEN [i \in DOMAIN d |-> IF d[i][1] = k THEN <<k, v>> ELSE d[i]]
    ELSE Append(d, <<k, v>>)
SeqRange(s) == {s[i] : i \in DOMAIN s}

VARIABLES
    \* module-level globals of the program (lines 12-28)
    _lock, available_sources, active_modules, default_source_name, is_muted,
    _audio_active, _audio_proc, left_click_toggle, _mute_poll_stop, _AUDIO_THRESHOLD,
    \* the pystray icon object: its image, its title, whether stop() was called
    icon_icon, icon_title, icon_stopped,
    \* per thread: position and locals
    pc, frame,
    \* the sound server: modules this process loaded (id -> source), which are
    \* still loaded, for which an unload was requested; default source; muted sources
    mod_source, mod_loaded, mod_unload_req, ext_default, ext_muted,
    \* history: the tray callbacks run one after another (SpecSeq only), and
    \* the number of operations started (Spec only)
    log, ops

shared == <<available_sources, active_modules, default_source_name, is_muted,
            _audio_active, left_click_toggle>>
procvars == <<_audio_proc, _mute_poll_stop, _AUDIO_THRESHOLD>>
iconvars == <<icon_icon, icon_title, icon_stopped>>
server == <<mod_source, mod_loaded, mod_unload_req>>
extvars == <<ext_default, ext_muted>>
hist == <<log, ops>>
vars == <<_lock, shared, procvars, iconvars, pc, frame, server, extvars, hist>>

\* create_icon: the image is determined by which parts are drawn.
create_icon(monitoring, audio, muted) ==
    [mic |-> IF audio /\ ~muted THEN "active" ELSE "inactive",
     slash |-> muted,
     badge |-> monitoring]

\* Variant of the title that reports ON only above one active monitor.
TitleOffByOne(count) ==
    IF count > 1
    THEN "Mic Monitor: ON (" \o ToString(count) \o " active)"
    ELSE "Mic Monitor: OFF"

\* The title update_icon sets (line 288).
Title(count) ==
    IF count > 0
    THEN "Mic Monitor: ON (" \o ToString(count) \o " active)"
    ELSE "Mic Monitor: OFF"

\* The locals of one thread.  dirty is history: the thread changed a shared
\* field and has not captured a render snapshot since.
EmptyFrame ==
    [op |-> "", source_name |-> "", icon |-> TRUE,
     current_id |-> {}, new_id |-> {},
     lct |-> FALSE, has_active |-> FALSE, default |-> "",
     modules_to_unload |-> <<>>, todo |-> <<>>, modules_snapshot |-> <<>>,
     count |-> 0, muted |-> FALSE, audio |-> FALSE,
     names |-> <<>>, descriptions |-> <<>>, sources |-> <<>>,
     src |-> "", new_muted |-> FALSE, new_active |-> FALSE, changed |-> FALSE,
     samples |-> <<>>,
     dirty |-> FALSE]

\* ------------------------------------------------------------ the gateway
\* The sound server numbers the modules it loads; the first one of a run is 42.
ModuleId(i) == 41 + i
ModuleIds == {ModuleId(i) : i \in DOMAIN mod_source}
NextModuleId == ModuleId(Len(mod_source) + 1)
SourceOfModule(id) == mod_source[id - 41]

\* enable_monitor: pactl load-module either loads a module and prints its id,
\* or fails (missing tool, timeout, non-zero exit, unparseable id): None.
enable_monitor(source_name, result) ==
    \/ /\ Len(mod_source) < MaxModules
       /\ result = {NextModuleId}
       /\ mod_source' = Append(mod_source, source_name)
       /\ mod_loaded' = mod_loaded \cup {NextModuleId}
       /\ UNCHANGED mod_unload_req
    \/ /\ result = {}
       /\ UNCHANGED server

\* disable_monitor: pactl unload-module; True iff pactl ran and exited 0, which
\* it does only for a module that is loaded.
disable_monitor(module_id, result) ==
    /\ mod_unload_req' = mod_unload_req \cup {module_id}
    /\ \/ /\ result
          /\ module_id \in mod_loaded
          /\ mod_loaded' = mod_loaded \ {module_id}
       \/ /\ ~result
          /\ UNCHANGED mod_loaded
    /\ UNCHANGED mod_source

\* ------------------------------------------------------------- the threads
Goto(t, p) == pc' = [pc EXCEPT ![t] = p]
\* The refresh thread and the watcher loops are daemon threads: they end
\* when main returns.
Runs(t) == t \in {"refresh", "refresh2", "mute", "audio"} => pc["main"] # "exited"
SetFrame(t, f) == frame' = [frame EXCEPT ![t] = f]
Release == _lock' = ""

\* `with _lock:` of each block: where the thread waits for the lock, and the
\* block it enters once it holds it.
LockedPc(p) ==
    CASE p = "ts_acq1" -> "ts_read"
      [] p = "ts_acq2" -> "ts_pop"
      [] p = "ts_acq3" -> "ts_insert"
      [] p = "ui_acq" -> "ui_snap"
      [] p = "oa_acq1" -> "oa_read"
      [] p = "oa_acq2" -> "oa_copy"
      [] p = "oa_acq3" -> "oa_clear"
      [] p = "oa_acq4" -> "oa_insert"
      [] p = "tl_acq" -> "tl_flip"
      [] p = "rs_acq" -> "rs_clear"
      [] p = "q_acq1" -> "q_copy"
      [] p = "q_acq2" -> "q_clear"
      [] p = "gm_acq" -> "gm_read"
      [] p = "mp_acq" -> "mp_cmp"
      [] p = "al_acq" -> "al_cmp"
      [] p = "bm_acq" -> "bm_snap"
AcquirePcs ==
    {"ts_acq1", "ts_acq2", "ts_acq3", "ui_acq", "oa_acq1", "oa_acq2", "oa_acq3",
     "oa_acq4", "tl_acq", "rs_acq", "q_acq1", "q_acq2", "gm_acq", "mp_acq", "al_acq",
     "bm_acq"}

\* threading.Lock.acquire: blocks until the lock is free.
AcquireLock(t) ==
    /\ pc[t] \in AcquirePcs
    /\ Runs(t)
    /\ _lock = ""
    /\ _lock' = t
    /\ Goto(t, LockedPc(pc[t]))
    /\ UNCHANGED <<hist, shared, procvars, iconvars, frame, server, extvars>>

\* ---- update_icon (lines 282-288)
\* Where update_icon's caller goes on: the watcher loops loop, a callback returns.
AfterUpdateIcon(t) ==
    CASE t = "mute" -> "mp_wait"
      [] t = "audio" -> "al_read"
      [] OTHER -> "return"

\* The snapshot update_icon takes under the lock.
Snapshot == [count |-> Len(active_modules), muted |-> is_muted, audio |-> _audio_active]

UpdateIconSnapshot(t) ==
    /\ pc[t] = "ui_snap"
    /\ Runs(t)
    /\ SetFrame(t, [frame[t] EXCEPT !.count = Snapshot.count,
                                    !.muted = Snapshot.muted,
                                    !.audio = Snapshot.audio,
                                    !.dirty = FALSE])
    /\ Release
    /\ Goto(t, "ui_icon")
    /\ UNCHANGED <<hist, shared, procvars, iconvars, server, extvars>>

\* Variant of the icon write that reads the two flags when it draws, after
\* the lock was released, instead of from the snapshot.
UpdateIconSetIconUnlocked(t) ==
    /\ pc[t] = "ui_icon"
    /\ Runs(t)
    /\ icon_icon' = create_icon(frame[t].count > 0, _audio_active, is_muted)
    /\ Goto(t, "ui_title")
    /\ UNCHANGED <<hist, _lock, shared, procvars, icon_title, icon_stopped, frame, server, extvars>>

UpdateIconSetIcon(t) ==
    /\ pc[t] = "ui_icon"
    /\ Runs(t)
    /\ icon_icon' = create_icon(frame[t].count > 0, frame[t].audio, frame[t].muted)
    /\ Goto(t, "ui_title")
    /\ UNCHANGED <<hist, _lock, shared, procvars, icon_title, icon_stopped, frame, server, extvars>>

UpdateIconSetTitle(t) ==
    /\ pc[t] = "ui_title"
    /\ Runs(t)
    /\ icon_title' = Title(frame[t].count)
    /\ Goto(t, AfterUpdateIcon(t))
    /\ SetFrame(t, [frame[t] EXCEPT !.count = 0, !.muted = FALSE, !.audio = FALSE,
                                    !.changed = FALSE])
    /\ UNCHANGED <<hist, _lock, shared, procvars, icon_icon, icon_stopped, server, extvars>>

update_icon(t) ==
    \/ UpdateIconSnapshot(t)
    \/ UpdateIconSetIcon(t)
    \/ UpdateIconSetTitle(t)

\* ---- toggle_source (lines 297-311)
\* Variant of toggle_source's first block that keeps the lock over the
\* pactl call that follows.
ToggleSourceReadHolding(t) ==
    /\ pc[t] = "ts_read"
    /\ LET id == DictGet(active_modules, frame[t].source_name) IN
         /\ SetFrame(t, [frame[t] EXCEPT !.current_id = id])
         /\ Goto(t, IF id # {} THEN "ts_disable" ELSE "ts_enable")
    /\ UNCHANGED <<hist, _lock, shared, procvars, iconvars, server, extvars>>

ToggleSourceRead(t) ==
    /\ pc[t] = "ts_read"
    /\ LET id == DictGet(active_modules, frame[t].source_name) IN
         /\ SetFrame(t, [frame[t] EXCEPT !.current_id = id])
         /\ Goto(t, IF id # {} THEN "ts_disable" ELSE "ts_enable")
    /\ Release
    /\ UNCHANGED <<hist, shared, procvars, iconvars, server, extvars>>

\* Variant of toggle_source's unload that keeps the entry when
\* disable_monitor returns False.
ToggleSourceDisableChecks(t) ==
    /\ pc[t] = "ts_disable"
    /\ \E ok \in BOOLEAN, id \in frame[t].current_id :
         /\ disable_monitor(id, ok)
         /\ Goto(t, IF ok THEN "ts_acq2" ELSE "ui_acq")
    /\ UNCHANGED <<hist, _lock, shared, procvars, iconvars, frame, extvars>>

ToggleSourceDisable(t) ==
    /\ pc[t] = "ts_disable"
    /\ \E ok \in BOOLEAN, id \in frame[t].current_id : disable_monitor(id, ok)
    /\ Goto(t, "ts_acq2")
    /\ UNCHANGED <<hist, _lock, shared, procvars, iconvars, frame, extvars>>

\* Variant of toggle_source's second block that leaves the entry in the map.
ToggleSourcePopKeeps(t) ==
    /\ pc[t] = "ts_pop"
    /\ SetFrame(t, [frame[t] EXCEPT !.current_id = {}])
    /\ Release
    /\ Goto(t, "ui_acq")
    /\ UNCHANGED <<hist, shared, procvars, iconvars, server, extvars>>

ToggleSourcePop(t) ==
    /\ pc[t] = "ts_pop"
    /\ active_modules' = DictPop(active_modules, frame[t].source_name)
    /\ SetFrame(t, [frame[t] EXCEPT !.dirty = @ \/ active_modules' # active_modules,
                                    !.current_id = {}])
    /\ Release
    /\ Goto(t, "ui_acq")
    /\ UNCHANGED <<hist, available_sources, default_source_name, is_muted, _audio_active,
                   left_click_toggle, procvars, iconvars, server, extvars>>

\* Variant of toggle_source's load that returns at once when enable_monitor
\* gives no handle.
ToggleSourceEnableNoRender(t) ==
    /\ pc[t] = "ts_enable"
    /\ \E new_id \in {{}, {NextModuleId}} :
         /\ enable_monitor(frame[t].source_name, new_id)
         /\ SetFrame(t, [frame[t] EXCEPT !.new_id = new_id])
         /\ Goto(t, IF new_id # {} THEN "ts_acq3" ELSE "return")
    /\ UNCHANGED <<hist, _lock, shared, procvars, iconvars, extvars>>

ToggleSourceEnable(t) ==
    /\ pc[t] = "ts_enable"
    /\ \E new_id \in {{}, {NextModuleId}} :
         /\ enable_monitor(frame[t].source_name, new_id)
         /\ SetFrame(t, [frame[t] EXCEPT !.new_id = new_id])
         /\ Goto(t, IF new_id # {} THEN "ts_acq3" ELSE "ui_acq")
    /\ UNCHANGED <<hist, _lock, shared, procvars, iconvars, extvars>>

\* Variant of toggle_source's third block after which toggle_source returns
\* without update_icon.
ToggleSourceInsertNoRender(t) ==
    /\ pc[t] = "ts_insert"
    /\ \E new_id \in frame[t].new_id :
         active_modules' = DictSet(active_modules, frame[t].source_name, new_id)
    /\ SetFrame(t, [frame[t] EXCEPT !.dirty = @ \/ active_modules' # active_modules,
                                    !.new_id = {}])
    /\ Release
    /\ Goto(t, "return")
    /\ UNCHANGED <<hist, available_sources, default_source_name, is_muted, _audio_active,
                   left_click_toggle, procvars, iconvars, server, extvars>>

\* Variant of toggle_source's insert that files the handle under the default
\* source.
ToggleSourceInsertDefault(t) ==
    /\ pc[t] = "ts_insert"
    /\ \E new_id \in frame[t].new_id :
         active_modules' = DictSet(active_modules, default_source_name, new_id)
    /\ SetFrame(t, [frame[t] EXCEPT !.dirty = @ \/ active_modules' # active_modules,
                                    !.new_id = {}])
    /\ Release
    /\ Goto(t, "ui_acq")
    /\ UNCHANGED <<hist, available_sources, default_source_name, is_muted, _audio_active,
                   left_click_toggle, procvars, iconvars, server, extvars>>

ToggleSourceInsert(t) ==
    /\ pc[t] = "ts_insert"
    /\ \E new_id \in frame[t].new_id :
         active_modules' = DictSet(active_modules, frame[t].source_name, new_id)
    /\ SetFrame(t, [frame[t] EXCEPT !.dirty = @ \/ active_modules' # active_modules,
                                    !.new_id = {}])
    /\ Release
    /\ Goto(t, "ui_acq")
    /\ UNCHANGED <<hist, available_sources, default_source_name, is_muted, _audio_active,
                   left_click_toggle, procvars, iconvars, server, extvars>>

toggle_source(t) ==
    \/ ToggleSourceRead(t)
    \/ ToggleSourceDisable(t)
    \/ ToggleSourcePop(t)
    \/ ToggleSourceEnable(t)
    \/ ToggleSourceInsert(t)

\* ---- _on_activate (lines 314-337)
\* Variant of _on_activate's first block that does not look at the
\* preference.
OnActivateReadUngated(t) ==
    /\ pc[t] = "oa_read"
    /\ LET lct == left_click_toggle
           has_active == Len(active_modules) > 0
           default == default_source_name
       IN /\ SetFrame(t, [frame[t] EXCEPT !.lct = lct, !.has_active = has_active,
                                          !.default = default])
          /\ Goto(t, IF has_active THEN "oa_acq2"
                     ELSE IF default # "" THEN "oa_enable"
                     ELSE "ui_acq")
    /\ Release
    /\ UNCHANGED <<hist, shared, procvars, iconvars, server, extvars>>

OnActivateRead(t) ==
    /\ pc[t] = "oa_read"
    /\ LET lct == left_click_toggle
           has_active == Len(active_modules) > 0
           default == default_source_name
       IN /\ SetFrame(t, [frame[t] EXCEPT !.lct = lct, !.has_active = has_active,
                                          !.default = default])
          /\ Goto(t, IF ~lct THEN "return"
                     ELSE IF has_active THEN "oa_acq2"
                     ELSE IF default # "" THEN "oa_enable"
                     ELSE "ui_acq")
    /\ Release
    /\ UNCHANGED <<hist, shared, procvars, iconvars, server, extvars>>

OnActivateCopy(t) ==
    /\ pc[t] = "oa_copy"
    /\ SetFrame(t, [frame[t] EXCEPT !.modules_to_unload = active_modules,
                                    !.todo = DictValues(active_modules)])
    /\ Release
    /\ Goto(t, IF active_modules = <<>> THEN "oa_acq3" ELSE "oa_unload")
    /\ UNCHANGED <<hist, shared, procvars, iconvars, server, extvars>>

\* Variant of _on_activate's unload loop that stops at the first unload that
\* fails.
OnActivateUnloadStops(t) ==
    /\ pc[t] = "oa_unload"
    /\ \E ok \in BOOLEAN :
         /\ disable_monitor(Head(frame[t].todo), ok)
         /\ SetFrame(t, [frame[t] EXCEPT !.todo = IF ok THEN Tail(@) ELSE <<>>])
         /\ Goto(t, IF ok /\ Tail(frame[t].todo) # <<>> THEN "oa_unload" ELSE "oa_acq3")
    /\ UNCHANGED <<hist, _lock, shared, procvars, iconvars, extvars>>

OnActivateUnload(t) ==
    /\ pc[t] = "oa_unload"
    /\ \E ok \in BOOLEAN : disable_monitor(Head(frame[t].todo), ok)
    /\ SetFrame(t, [frame[t] EXCEPT !.todo = Tail(@)])
    /\ Goto(t, IF Tail(frame[t].todo) = <<>> THEN "oa_acq3" ELSE "oa_unload")
    /\ UNCHANGED <<hist, _lock, shared, procvars, iconvars, extvars>>

\* Variant of _on_activate's clear that removes only the entries of its
\* snapshot.
OnActivateClearSnapshot(t) ==
    /\ pc[t] = "oa_clear"
    /\ active_modules' =
         SelectSeq(active_modules,
                   LAMBDA p : p[1] \notin DictKeys(frame[t].modules_to_unload))
    /\ SetFrame(t, [frame[t] EXCEPT !.dirty = @ \/ active_modules' # active_modules,
                                    !.modules_to_unload = <<>>, !.default = ""])
    /\ Release
    /\ Goto(t, "ui_acq")
    /\ UNCHANGED <<hist, available_sources, default_source_name, is_muted, _audio_active,
                   left_click_toggle, procvars, iconvars, server, extvars>>

OnActivateClear(t) ==
    /\ pc[t] = "oa_clear"
    /\ active_modules' = <<>>
    /\ SetFrame(t, [frame[t] EXCEPT !.dirty = @ \/ active_modules' # active_modules,
                                    !.modules_to_unload = <<>>, !.default = ""])
    /\ Release
    /\ Goto(t, "ui_acq")
    /\ UNCHANGED <<hist, available_sources, default_source_name, is_muted, _audio_active,
                   left_click_toggle, procvars, iconvars, server, extvars>>

OnActivateEnable(t) ==
    /\ pc[t] = "oa_enable"
    /\ \E new_id \in {{}, {NextModuleId}} :
         /\ enable_monitor(frame[t].default, new_id)
         /\ SetFrame(t, [frame[t] EXCEPT !.new_id = new_id])
         /\ Goto(t, IF new_id # {} THEN "oa_acq4" ELSE "ui_acq")
    /\ UNCHANGED <<hist, _lock, shared, procvars, iconvars, extvars>>

OnActivateInsert(t) ==
    /\ pc[t] = "oa_insert"
    /\ \E new_id \in frame[t].new_id :
         active_modules' = DictSet(active_modules, frame[t].default, new_id)
    /\ SetFrame(t, [frame[t] EXCEPT !.dirty = @ \/ active_modules' # active_modules,
                                    !.new_id = {}, !.default = ""])
    /\ Release
    /\ Goto(t, "ui_acq")
    /\ UNCHANGED <<hist, available_sources, default_source_name, is_muted, _audio_active,
                   left_click_toggle, procvars, iconvars, server, extvars>>

_on_activate(t) ==
    \/ OnActivateRead(t)
    \/ OnActivateCopy(t)
    \/ OnActivateUnload(t)
    \/ OnActivateClear(t)
    \/ OnActivateEnable(t)
    \/ OnActivateInsert(t)

\* ---- toggle_left_click_setting (lines 342-345)
toggle_left_click_setting(t) ==
    /\ pc[t] = "tl_flip"
    /\ left_click_toggle' = ~left_click_toggle
    /\ SetFrame(t, [frame[t] EXCEPT !.dirty = TRUE])
    /\ Release
    /\ Goto(t, "return")
    /\ UNCHANGED <<hist, available_sources, active_modules, default_source_name, is_muted,
                   _audio_active, procvars, iconvars, server, extvars>>

\* ---- refresh_sources (lines 216-230) and the pactl queries it makes
ExtDescriptions == << <<"A", "Mic A">>, <<"B", "Mic B">> >>

\* descriptions.get(n, n)
DescriptionOf(descriptions, n) ==
    IF n \in DictKeys(descriptions)
    THEN CHOOSE d \in DictGet(descriptions, n) : TRUE
    ELSE n

SourceInfo(name, description) == [name |-> name, description |-> description]

\* Where refresh_sources' caller goes on: main goes on starting up, the
\* thread refresh_callback started ends.
AfterRefresh(t) == IF t = "main" THEN "m_start_mute" ELSE "return"

\* get_short_sources (lines 130-141): the names, or [] when pactl fails.
RefreshShortSources(t) ==
    /\ pc[t] = "rs_short"
    /\ Runs(t)
    /\ \E names \in {ExtSourceList, <<>>} :
         SetFrame(t, [frame[t] EXCEPT !.names = names])
    /\ Goto(t, "rs_desc")
    /\ UNCHANGED <<hist, _lock, shared, procvars, iconvars, server, extvars>>

\* get_source_descriptions (lines 144-157): name -> description, or {}.
RefreshDescriptions(t) ==
    /\ pc[t] = "rs_desc"
    /\ Runs(t)
    /\ \E descriptions \in {ExtDescriptions, <<>>} :
         SetFrame(t, [frame[t] EXCEPT
            !.descriptions = descriptions,
            !.sources = [i \in DOMAIN frame[t].names |->
                           SourceInfo(frame[t].names[i],
                                      DescriptionOf(descriptions, frame[t].names[i]))]])
    /\ Goto(t, "rs_default")
    /\ UNCHANGED <<hist, _lock, shared, procvars, iconvars, server, extvars>>

\* get_default_source (lines 160-164): the name, or "" when pactl fails.
RefreshDefault(t) ==
    /\ pc[t] = "rs_default"
    /\ Runs(t)
    /\ \E default \in {ext_default, ""} :
         SetFrame(t, [frame[t] EXCEPT !.default = default])
    /\ Goto(t, "rs_acq")
    /\ UNCHANGED <<hist, _lock, shared, procvars, iconvars, server, extvars>>

\* Variant of refresh_sources in which clear() is a locked block of its own
\* and the list is filled and the default set after the lock was released.
RefreshClearReleases(t) ==
    /\ pc[t] = "rs_clear"
    /\ Runs(t)
    /\ available_sources' = <<>>
    /\ SetFrame(t, [frame[t] EXCEPT !.dirty = @ \/ available_sources # <<>>])
    /\ Release
    /\ Goto(t, "rs_extend")
    /\ UNCHANGED <<hist, active_modules, default_source_name, is_muted, _audio_active,
                   left_click_toggle, procvars, iconvars, server, extvars>>

RefreshClear(t) ==
    /\ pc[t] = "rs_clear"
    /\ Runs(t)
    /\ available_sources' = <<>>
    /\ SetFrame(t, [frame[t] EXCEPT !.dirty = @ \/ available_sources # <<>>])
    /\ Goto(t, "rs_extend")
    /\ UNCHANGED <<hist, _lock, active_modules, default_source_name, is_muted, _audio_active,
                   left_click_toggle, procvars, iconvars, server, extvars>>

RefreshExtend(t) ==
    /\ pc[t] = "rs_extend"
    /\ Runs(t)
    /\ available_sources' = available_sources \o frame[t].sources
    /\ SetFrame(t, [frame[t] EXCEPT !.dirty = @ \/ frame[t].sources # <<>>])
    /\ Goto(t, "rs_setdefault")
    /\ UNCHANGED <<hist, _lock, active_modules, default_source_name, is_muted, _audio_active,
                   left_click_toggle, procvars, iconvars, server, extvars>>

RefreshSetDefault(t) ==
    /\ pc[t] = "rs_setdefault"
    /\ Runs(t)
    /\ default_source_name' = frame[t].default
    /\ SetFrame(t, [frame[t] EXCEPT
          !.dirty = @ \/ default_source_name' # default_source_name,
          !.names = <<>>, !.descriptions = <<>>, !.sources = <<>>, !.default = ""])
    /\ Release
    /\ Goto(t, IF frame[t].icon THEN "ui_acq" ELSE AfterRefresh(t))
    /\ UNCHANGED <<hist, available_sources, active_modules, is_muted, _audio_active,
                   left_click_toggle, procvars, iconvars, server, extvars>>

refresh_sources(t) ==
    \/ RefreshShortSources(t)
    \/ RefreshDescriptions(t)
    \/ RefreshDefault(t)
    \/ RefreshClear(t)
    \/ RefreshExtend(t)
    \/ RefreshSetDefault(t)

\* ---- build_menu_items (lines 348-387): its locked block copies the source
\* list, the map, the default name and the preference; the items are built
\* from the copies.
build_menu_items(t) ==
    /\ pc[t] = "bm_snap"
    /\ SetFrame(t, [frame[t] EXCEPT !.sources = available_sources,
                                    !.modules_snapshot = active_modules,
                                    !.default = default_source_name,
                                    !.lct = left_click_toggle])
    /\ Release
    /\ Goto(t, "return")
    /\ UNCHANGED <<hist, shared, procvars, iconvars, server, extvars>>

\* refresh_callback (lines 390-391): start a daemon thread running
\* refresh_sources(icon), and return.
refresh_callback(t) ==
    /\ pc[t] = "rc_start"
    /\ pc["refresh"] = "idle"
    /\ pc' = [pc EXCEPT ![t] = "return", !["refresh"] = "rs_short"]
    /\ frame' = [frame EXCEPT !["refresh"] = [EmptyFrame EXCEPT !.op = "refresh_sources"]]
    /\ UNCHANGED <<hist, _lock, shared, procvars, iconvars, server, extvars>>

\* ---- quit_app (lines 394-414)
QuitSetStop(t) ==
    /\ pc[t] = "q_setstop"
    /\ _mute_poll_stop' = TRUE
    /\ Goto(t, "q_term")
    /\ UNCHANGED <<hist, _lock, shared, _audio_proc, _AUDIO_THRESHOLD, iconvars, frame,
                   server, extvars>>

QuitTerminate(t) ==
    /\ pc[t] = "q_term"
    /\ _audio_proc' = IF _audio_proc # "None" THEN "terminated" ELSE _audio_proc
    /\ Goto(t, "q_acq1")
    /\ UNCHANGED <<hist, _lock, shared, _mute_poll_stop, _AUDIO_THRESHOLD, iconvars, frame,
                   server, extvars>>

QuitCopy(t) ==
    /\ pc[t] = "q_copy"
    /\ SetFrame(t, [frame[t] EXCEPT !.modules_to_unload = active_modules,
                                    !.todo = DictValues(active_modules)])
    /\ Release
    /\ Goto(t, IF active_modules = <<>> THEN "q_acq2" ELSE "q_unload")
    /\ UNCHANGED <<hist, shared, procvars, iconvars, server, extvars>>

\* Variant of quit_app's loop in which a failed disable_monitor raises and
\* ends the callback.
QuitUnloadAborts(t) ==
    /\ pc[t] = "q_unload"
    /\ \E ok \in BOOLEAN :
         /\ disable_monitor(Head(frame[t].todo), ok)
         /\ Goto(t, IF ~ok THEN "q_raised"
                    ELSE IF Tail(frame[t].todo) = <<>> THEN "q_acq2" ELSE "q_unload")
    /\ SetFrame(t, [frame[t] EXCEPT !.todo = Tail(@)])
    /\ UNCHANGED <<hist, _lock, shared, procvars, iconvars, extvars>>

QuitUnload(t) ==
    /\ pc[t] = "q_unload"
    /\ \E ok \in BOOLEAN : disable_monitor(Head(frame[t].todo), ok)
    /\ SetFrame(t, [frame[t] EXCEPT !.todo = Tail(@)])
    /\ Goto(t, IF Tail(frame[t].todo) = <<>> THEN "q_acq2" ELSE "q_unload")
    /\ UNCHANGED <<hist, _lock, shared, procvars, iconvars, extvars>>

QuitClear(t) ==
    /\ pc[t] = "q_clear"
    /\ active_modules' = <<>>
    /\ SetFrame(t, [frame[t] EXCEPT !.dirty = @ \/ active_modules' # active_modules])
    /\ Release
    /\ Goto(t, "q_stop")
    /\ UNCHANGED <<hist, available_sources, default_source_name, is_muted, _audio_active,
                   left_click_toggle, procvars, iconvars, server, extvars>>

QuitIconStop(t) ==
    /\ pc[t] = "q_stop"
    /\ icon_stopped' = TRUE
    /\ Goto(t, "return")
    /\ UNCHANGED <<hist, _lock, shared, procvars, icon_icon, icon_title, frame, server, extvars>>

quit_app(t) ==
    \/ QuitSetStop(t)
    \/ QuitTerminate(t)
    \/ QuitCopy(t)
    \/ QuitUnload(t)
    \/ QuitClear(t)
    \/ QuitIconStop(t)

\* ---- _mute_poll_loop (lines 233-241) and get_default_source_muted (184-194)
\* _mute_poll_stop.wait(1.5): True as soon as the event is set, else False
\* after the period.
MutePollWait(t) ==
    /\ pc[t] = "mp_wait"
    /\ Runs(t)
    /\ Goto(t, IF _mute_poll_stop THEN "mp_done" ELSE "gm_acq")
    /\ UNCHANGED <<_lock, shared, procvars, iconvars, frame, server, extvars>>

GetMutedRead(t) ==
    /\ pc[t] = "gm_read"
    /\ Runs(t)
    /\ LET src == default_source_name IN
         /\ SetFrame(t, [frame[t] EXCEPT !.src = src,
                            !.new_muted = IF src = "" THEN FALSE ELSE @])
         /\ Goto(t, IF src = "" THEN "mp_acq" ELSE "gm_pactl")
    /\ Release
    /\ UNCHANGED <<hist, shared, procvars, iconvars, server, extvars>>

\* pactl get-source-mute: the source's mute state, or the call fails and
\* _get_mute_from_list is tried.
\* Variant of the direct query that never recognises "yes".
GetMutedPactlNeverYes(t) ==
    /\ pc[t] = "gm_pactl"
    /\ Runs(t)
    /\ \/ /\ SetFrame(t, [frame[t] EXCEPT !.new_muted = FALSE])
          /\ Goto(t, "mp_acq")
       \/ /\ Goto(t, "gm_list")
          /\ UNCHANGED frame
    /\ UNCHANGED <<hist, _lock, shared, procvars, iconvars, server, extvars>>

GetMutedPactl(t) ==
    /\ pc[t] = "gm_pactl"
    /\ Runs(t)
    /\ \/ /\ SetFrame(t, [frame[t] EXCEPT !.new_muted = frame[t].src \in ext_muted])
          /\ Goto(t, "mp_acq")
       \/ /\ Goto(t, "gm_list")
          /\ UNCHANGED frame
    /\ UNCHANGED <<hist, _lock, shared, procvars, iconvars, server, extvars>>

\* _get_mute_from_list (lines 167-181): the Mute: line of the source's block
\* of `pactl list sources`, or False when pactl fails.
GetMuteFromList(t) ==
    /\ pc[t] = "gm_list"
    /\ Runs(t)
    /\ \E new_muted \in {frame[t].src \in ext_muted, FALSE} :
         SetFrame(t, [frame[t] EXCEPT !.new_muted = new_muted])
    /\ Goto(t, "mp_acq")
    /\ UNCHANGED <<hist, _lock, shared, procvars, iconvars, server, extvars>>

\* Variant of _mute_poll_loop's locked block after which every tick renders.
MutePollCompareAlways(t) ==
    /\ pc[t] = "mp_cmp"
    /\ Runs(t)
    /\ LET changed == frame[t].new_muted # is_muted IN
         /\ SetFrame(t, [frame[t] EXCEPT !.changed = changed, !.dirty = @ \/ changed,
                                         !.src = "", !.new_muted = FALSE])
         /\ Goto(t, "ui_acq")
    /\ is_muted' = frame[t].new_muted
    /\ Release
    /\ UNCHANGED <<hist, available_sources, active_modules, default_source_name, _audio_active,
                   left_click_toggle, procvars, iconvars, server, extvars>>

MutePollCompare(t) ==
    /\ pc[t] = "mp_cmp"
    /\ Runs(t)
    /\ LET changed == frame[t].new_muted # is_muted IN
         /\ SetFrame(t, [frame[t] EXCEPT !.changed = changed, !.dirty = @ \/ changed,
                                         !.src = "", !.new_muted = FALSE])
         /\ Goto(t, IF changed THEN "ui_acq" ELSE "mp_wait")
    /\ is_muted' = frame[t].new_muted
    /\ Release
    /\ UNCHANGED <<hist, available_sources, active_modules, default_source_name, _audio_active,
                   left_click_toggle, procvars, iconvars, server, extvars>>

_mute_poll_loop(t) ==
    \/ MutePollWait(t)
    \/ GetMutedRead(t)
    \/ GetMutedPactl(t)
    \/ GetMuteFromList(t)
    \/ MutePollCompare(t)

\* ---- _audio_level_loop (lines 244-279)
RECURSIVE SumSquares(_)
SumSquares(samples) ==
    IF samples = <<>> THEN 0
    ELSE Head(samples) * Head(samples) + SumSquares(Tail(samples))

\* Variant of the comparison that counts a level equal to the threshold.
RmsExceedsInclusive(samples, threshold) ==
    IF threshold < 0 THEN TRUE
    ELSE SumSquares(samples) >= Len(samples) * threshold * threshold

\* rms > _AUDIO_THRESHOLD with rms = (sum(s * s) / n) ** 0.5 (lines 267-268):
\* a square root is never negative, and for a threshold >= 0 the comparison
\* is that of the squares.
RmsExceeds(samples, threshold) ==
    IF threshold < 0 THEN TRUE
    ELSE SumSquares(samples) > Len(samples) * threshold * threshold

\* The chunks a read can return: 1 to MaxWindow samples (an odd trailing
\* byte is dropped by data[:n * 2]).
Windows ==
    UNION {[1..n -> (0 - MaxAmp)..MaxAmp] : n \in 1..MaxWindow}
\* A silent and a loud chunk.
CoarseWindows == {<<0>>, <<MaxAmp>>}

AudioPopen(t) ==
    /\ pc[t] = "al_popen"
    /\ Runs(t)
    /\ \/ /\ _audio_proc' = "running"
          /\ Goto(t, "al_read")
       \/ /\ UNCHANGED _audio_proc
          /\ Goto(t, "al_done")
    /\ UNCHANGED <<hist, _lock, shared, _mute_poll_stop, _AUDIO_THRESHOLD, iconvars, frame,
                   server, extvars>>

\* _audio_proc.stdout.read(CHUNK): no data once the process was terminated;
\* a single byte (n == 0) is skipped; else a window of samples.
AudioRead(t, windows) ==
    /\ pc[t] = "al_read"
    /\ Runs(t)
    /\ \/ /\ _audio_proc = "terminated"
          /\ Goto(t, "al_finally")
          /\ UNCHANGED frame
       \/ /\ _audio_proc = "running"
          /\ \E samples \in windows :
               SetFrame(t, [frame[t] EXCEPT
                  !.samples = samples,
                  !.new_active = RmsExceeds(samples, _AUDIO_THRESHOLD)])
          /\ Goto(t, "al_acq")
    /\ UNCHANGED <<_lock, shared, procvars, iconvars, server, extvars>>

AudioCompare(t) ==
    /\ pc[t] = "al_cmp"
    /\ Runs(t)
    /\ LET changed == frame[t].new_active # _audio_active IN
         /\ SetFrame(t, [frame[t] EXCEPT !.changed = changed, !.dirty = @ \/ changed,
                                         !.new_active = FALSE])
         /\ Goto(t, IF changed THEN "ui_acq" ELSE "al_read")
    /\ _audio_active' = frame[t].new_active
    /\ Release
    /\ UNCHANGED <<hist, available_sources, active_modules, default_source_name, is_muted,
                   left_click_toggle, procvars, iconvars, server, extvars>>

\* finally: _audio_proc.terminate(); _audio_proc.wait(timeout=2)
AudioFinally(t) ==
    /\ pc[t] = "al_finally"
    /\ Runs(t)
    /\ _audio_proc' = "terminated"
    /\ Goto(t, "al_done")
    /\ UNCHANGED <<hist, _lock, shared, _mute_poll_stop, _AUDIO_THRESHOLD, iconvars, frame,
                   server, extvars>>

_audio_level_loop(t, windows) ==
    \/ AudioPopen(t)
    \/ AudioRead(t, windows)
    \/ AudioCompare(t)
    \/ AudioFinally(t)

\* ---- main (lines 419-440)
\* _run_pactl("unload-module", "module-loopback"): unloads every loopback
\* module of the sound server, then refresh_sources() without an icon.
MainCleanup ==
    /\ pc["main"] = "m_cleanup"
    /\ mod_loaded' = {}
    /\ Goto("main", "rs_short")
    /\ SetFrame("main", [EmptyFrame EXCEPT !.op = "refresh_sources", !.icon = FALSE])
    /\ UNCHANGED <<hist, _lock, shared, procvars, iconvars, mod_source, mod_unload_req, extvars>>

MainStartMute ==
    /\ pc["main"] = "m_start_mute"
    /\ pc' = [pc EXCEPT !["main"] = "m_start_audio", !["mute"] = "mp_wait"]
    /\ frame' = [frame EXCEPT !["main"] = EmptyFrame,
                              !["mute"] = [EmptyFrame EXCEPT !.op = "_mute_poll_loop"]]
    /\ UNCHANGED <<hist, _lock, shared, procvars, iconvars, server, extvars>>

MainStartAudio ==
    /\ pc["main"] = "m_start_audio"
    /\ pc' = [pc EXCEPT !["main"] = "m_run", !["audio"] = "al_popen"]
    /\ frame' = [frame EXCEPT !["audio"] = [EmptyFrame EXCEPT !.op = "_audio_level_loop"]]
    /\ UNCHANGED <<hist, _lock, shared, procvars, iconvars, server, extvars>>

\* icon.run() returns once icon.stop() was called.
MainRunReturns ==
    /\ pc["main"] = "m_run"
    /\ icon_stopped
    /\ Goto("main", "m_setstop")
    /\ UNCHANGED <<hist, _lock, shared, procvars, iconvars, frame, server, extvars>>

\* icon.run() returns for another reason: the toolkit's event loop ends
\* without quit_app (the display connection closes, the backend's loop quits).
EventLoopEnds ==
    /\ pc["main"] = "m_run"
    /\ ~icon_stopped
    /\ Goto("main", "m_setstop")
    /\ UNCHANGED <<hist, _lock, shared, procvars, iconvars, frame, server, extvars>>

\* _mute_poll_stop.set() (line 440), then the interpreter exits.
MainSetStop ==
    /\ pc["main"] = "m_setstop"
    /\ _mute_poll_stop' = TRUE
    /\ Goto("main", "exited")
    /\ UNCHANGED <<hist, _lock, shared, _audio_proc, _AUDIO_THRESHOLD, iconvars, frame,
                   server, extvars>>

MainStartup ==
    \/ MainCleanup
    \/ refresh_sources("main")
    \/ AcquireLock("main")
    \/ MainStartMute
    \/ MainStartAudio

MainShutdown ==
    \/ MainRunReturns
    \/ MainSetStop

\* ---- the tray: pystray runs a callback for a menu item or a left click
\* The sources the menu offers (build_menu_items, lines 348-377).
MenuSources ==
    ({available_sources[i].name : i \in DOMAIN available_sources}
        \cup {default_source_name}) \ {""}

ToggleCallbacks == {[op |-> "toggle_source", source_name |-> s] : s \in Sources}
TeardownCallbacks == {[op |-> "_on_activate", source_name |-> ""],
                      [op |-> "quit_app", source_name |-> ""]}
SettingCallbacks == {[op |-> "toggle_left_click_setting", source_name |-> ""]}
RefreshCallbacks == {[op |-> "refresh_callback", source_name |-> ""]}
AllCallbacks ==
    ToggleCallbacks \cup TeardownCallbacks \cup SettingCallbacks \cup RefreshCallbacks

EntryPc(op) ==
    CASE op = "toggle_source" -> "ts_acq1"
      [] op = "_on_activate" -> "oa_acq1"
      [] op = "toggle_left_click_setting" -> "tl_acq"
      [] op = "refresh_callback" -> "rc_start"
      [] op = "quit_app" -> "q_setstop"

\* A click while icon.run() is running starts callback c on thread t.
Click(t, c) ==
    /\ pc[t] = "idle"
    /\ pc["main"] = "m_run"
    /\ ~icon_stopped
    /\ c.op = "toggle_source" => c.source_name \in MenuSources
    /\ c.op = "refresh_callback" => pc["refresh"] = "idle"
    /\ SetFrame(t, [EmptyFrame EXCEPT !.op = c.op, !.source_name = c.source_name])
    /\ Goto(t, EntryPc(c.op))
    /\ UNCHANGED <<_lock, shared, procvars, iconvars, server, extvars>>

\* The callback (or the refresh thread's target) returns.
Return(t) ==
    /\ pc[t] = "return"
    /\ Runs(t)
    /\ Goto(t, "idle")
    /\ SetFrame(t, EmptyFrame)
    /\ UNCHANGED <<_lock, shared, procvars, iconvars, server, extvars>>

\* ---- the sound server's own changes
ExtDefaultChanges ==
    /\ pc["main"] # "exited"
    /\ \E s \in Sources \ {ext_default} : ext_default' = s
    /\ UNCHANGED <<_lock, shared, procvars, iconvars, pc, frame, server, ext_muted>>

ExtMuteChanges ==
    /\ pc["main"] # "exited"
    /\ \E s \in Sources :
         ext_muted' = IF s \in ext_muted THEN ext_muted \ {s} ELSE ext_muted \cup {s}
    /\ UNCHANGED <<_lock, shared, procvars, iconvars, pc, frame, server, ext_default>>

\* ------------------------------------------------------- specifications
\* The state when main is entered, load_config done.
InitProgram ==
    /\ _lock = ""
    /\ available_sources = <<>>
    /\ active_modules = <<>>
    /\ default_source_name = ""
    /\ is_muted = FALSE
    /\ _audio_active = FALSE
    /\ _audio_proc = "None"
    /\ left_click_toggle = FALSE
    /\ _mute_poll_stop = FALSE
    /\ icon_icon = create_icon(FALSE, FALSE, FALSE)
    /\ icon_title = "Mic Monitor: OFF"
    /\ icon_stopped = FALSE
    /\ pc = [t \in Threads |->
               CASE t = "main" -> "m_cleanup"
                 [] t \in {"mute", "audio"} -> "unborn"
                 [] OTHER -> "idle"]
    /\ frame = [t \in Threads |-> EmptyFrame]
    /\ mod_source = <<>>
    /\ mod_loaded = {}
    /\ mod_unload_req = {}
    /\ log = <<>>
    /\ ops = 0

\* ---- Spec: the whole program.  pystray runs the callbacks one at a time
\* (thread ui1); the refresh thread and the two watcher loops run beside
\* them; the sound server changes mute states.  A run starts at most MaxOps
\* operations.
Init ==
    /\ InitProgram
    /\ _AUDIO_THRESHOLD = 1
    /\ ext_default = "A"
    /\ ext_muted = {}

Budget == ops < MaxOps /\ ops' = ops + 1 /\ UNCHANGED log

ClickBudget(t) == (\E c \in AllCallbacks : Click(t, c)) /\ Budget
ReturnPlain(t) == Return(t) /\ UNCHANGED hist
MutePollWaitBudget == MutePollWait("mute") /\ Budget
AudioReadBudget == AudioRead("audio", CoarseWindows) /\ Budget
ExtMuteChangesBudget == ExtMuteChanges /\ Budget

Callback(t) ==
    \/ AcquireLock(t)
    \/ update_icon(t)
    \/ toggle_source(t)
    \/ _on_activate(t)
    \/ toggle_left_click_setting(t)
    \/ quit_app(t)

RefreshThread ==
    \/ AcquireLock("refresh")
    \/ refresh_sources("refresh")
    \/ update_icon("refresh")
    \/ ReturnPlain("refresh")

MuteThread ==
    \/ AcquireLock("mute")
    \/ GetMutedRead("mute")
    \/ GetMutedPactl("mute")
    \/ GetMuteFromList("mute")
    \/ MutePollCompare("mute")
    \/ update_icon("mute")

AudioThread ==
    \/ AcquireLock("audio")
    \/ AudioPopen("audio")
    \/ AudioCompare("audio")
    \/ AudioFinally("audio")
    \/ update_icon("audio")

Next ==
    \/ MainStartup
    \/ MainShutdown
    \/ ClickBudget("ui1")
    \/ Callback("ui1")
    \/ refresh_callback("ui1")
    \/ ReturnPlain("ui1")
    \/ RefreshThread
    \/ MuteThread
    \/ MutePollWaitBudget
    \/ AudioThread
    \/ AudioReadBudget
    \/ ExtMuteChangesBudget

Spec == Init /\ [][Next]_vars

\* ---- SpecRace: the callbacks run on two threads at once, from a state in
\* which main has started the tray (a refresh that found both sources) and
\* the left-click preference was switched on.  icon.run() may also return
\* without quit_app.
RaceCallbacks == ToggleCallbacks \cup TeardownCallbacks
SeqCallbacks == ToggleCallbacks \cup TeardownCallbacks \cup SettingCallbacks

RunningWith(default) ==
    /\ _lock = ""
    /\ available_sources =
         [i \in DOMAIN ExtSourceList |->
            SourceInfo(ExtSourceList[i], DescriptionOf(ExtDescriptions, ExtSourceList[i]))]
    /\ active_modules = <<>>
    /\ default_source_name = default
    /\ is_muted = FALSE
    /\ _audio_active = FALSE
    /\ _audio_proc = "None"
    /\ left_click_toggle = TRUE
    /\ _mute_poll_stop = FALSE
    /\ icon_icon = create_icon(FALSE, FALSE, FALSE)
    /\ icon_title = "Mic Monitor: OFF"
    /\ icon_stopped = FALSE
    /\ pc = [t \in Threads |->
               CASE t = "main" -> "m_run"
                 [] t = "mute" -> "mp_wait"
                 [] t = "audio" -> "al_popen"
                 [] OTHER -> "idle"]
    /\ frame = [t \in Threads |->
                  CASE t = "mute" -> [EmptyFrame EXCEPT !.op = "_mute_poll_loop"]
                    [] t = "audio" -> [EmptyFrame EXCEPT !.op = "_audio_level_loop"]
                    [] OTHER -> EmptyFrame]
    /\ mod_source = <<>>
    /\ mod_loaded = {}
    /\ mod_unload_req = {}
    /\ log = <<>>
    /\ ops = 0
    /\ ext_default = "A"
    /\ ext_muted = {}

Running == RunningWith("A")

InitRunning == Running /\ _AUDIO_THRESHOLD = 1

ClickPlain(t) == (\E c \in RaceCallbacks : Click(t, c)) /\ UNCHANGED hist

RaceCallback(t) ==
    \/ AcquireLock(t)
    \/ update_icon(t)
    \/ toggle_source(t)
    \/ _on_activate(t)
    \/ quit_app(t)

NextRace ==
    \/ MainShutdown
    \/ EventLoopEnds
    \/ \E t \in UiThreads : ClickPlain(t)
    \/ \E t \in UiThreads : RaceCallback(t)
    \/ \E t \in UiThreads : ReturnPlain(t)

SpecRace == InitRunning /\ [][NextRace]_vars

\* ---- SpecSeq: the callbacks run one after another on one thread, the
\* watchers and the refresh thread left out; log keeps the last two.
World ==
    [shared |-> shared, active_modules |-> active_modules,
     mod_source |-> mod_source, mod_loaded |-> mod_loaded,
     mod_unload_req |-> mod_unload_req,
     icon_icon |-> icon_icon, icon_title |-> icon_title]

LastOf(s) == IF s = <<>> THEN <<>> ELSE <<s[Len(s)]>>

ClickSeq(t) ==
    \E c \in SeqCallbacks :
       /\ Click(t, c)
       /\ log' = Append(LastOf(log),
                        [op |-> c.op, source_name |-> c.source_name,
                         before |-> World, after |-> World, done |-> FALSE])
       /\ UNCHANGED ops

ReturnSeq(t) ==
    /\ Return(t)
    /\ log' = [log EXCEPT ![Len(log)].after = World, ![Len(log)].done = TRUE]
    /\ UNCHANGED ops

InitSeq ==
    /\ InitProgram
    /\ _AUDIO_THRESHOLD = 1
    /\ ext_default \in Sources
    /\ ext_muted = {}

NextSeq ==
    \/ MainStartup
    \/ MainShutdown
    \/ ClickSeq("ui1")
    \/ Callback("ui1")
    \/ ReturnSeq("ui1")

SpecSeq == InitSeq /\ [][NextSeq]_vars

\* ---- SpecQuick: left clicks and menu toggles on two threads at once, with
\* the preference on, the default source known or unknown.
QuickCallbacks == ToggleCallbacks \cup {[op |-> "_on_activate", source_name |-> ""]}

InitQuick == (\E default \in {"A", ""} : RunningWith(default)) /\ _AUDIO_THRESHOLD = 1

ClickQuick(t) == (\E c \in QuickCallbacks : Click(t, c)) /\ Budget

QuickCallback(t) ==
    \/ AcquireLock(t)
    \/ update_icon(t)
    \/ toggle_source(t)
    \/ _on_activate(t)

NextQuick ==
    \/ \E t \in UiThreads : ClickQuick(t)
    \/ \E t \in UiThreads : QuickCallback(t)
    \/ \E t \in UiThreads : ReturnPlain(t)

SpecQuick == InitQuick /\ [][NextQuick]_vars

\* ---- SpecRefresh: two threads started by refresh_callback run
\* refresh_sources at once while the tray builds its menu, handles left
\* clicks and the mute watcher polls; the sound server's default changes.
RefreshThreads == {"refresh", "refresh2"}

\* A click on "Refresh Sources": refresh_callback starts a new daemon thread
\* running refresh_sources(icon) and returns.
SpawnRefresh(r) ==
    /\ pc[r] = "idle"
    /\ pc["main"] = "m_run"
    /\ ~icon_stopped
    /\ Goto(r, "rs_short")
    /\ SetFrame(r, [EmptyFrame EXCEPT !.op = "refresh_sources"])
    /\ UNCHANGED <<_lock, shared, procvars, iconvars, server, extvars>>

\* pystray asks for the menu.
OpenMenu(t) ==
    /\ pc[t] = "idle"
    /\ pc["main"] = "m_run"
    /\ ~icon_stopped
    /\ Goto(t, "bm_acq")
    /\ SetFrame(t, [EmptyFrame EXCEPT !.op = "build_menu_items"])
    /\ UNCHANGED <<_lock, shared, procvars, iconvars, server, extvars>>

SpawnRefreshBudget == (\E r \in RefreshThreads : SpawnRefresh(r)) /\ Budget

ClickActivateBudget(t) == Click(t, [op |-> "_on_activate", source_name |-> ""]) /\ Budget

RefreshWorker(r) ==
    \/ AcquireLock(r)
    \/ refresh_sources(r)
    \/ update_icon(r)
    \/ ReturnPlain(r)

ReaderCallback(t) ==
    \/ AcquireLock(t)
    \/ build_menu_items(t)
    \/ _on_activate(t)
    \/ update_icon(t)
    \/ ReturnPlain(t)

OpenMenuBudget(t) == OpenMenu(t) /\ Budget
ExtDefaultChangesBudget == ExtDefaultChanges /\ Budget

NextRefresh ==
    \/ SpawnRefreshBudget
    \/ \E r \in RefreshThreads : RefreshWorker(r)
    \/ OpenMenuBudget("ui1")
    \/ ClickActivateBudget("ui1")
    \/ ReaderCallback("ui1")
    \/ MuteThread
    \/ MutePollWaitBudget
    \/ ExtDefaultChangesBudget

SpecRefresh == InitRunning /\ [][NextRefresh]_vars

\* ---- SpecAudio: the audio watcher alone, for every threshold and every
\* chunk of samples, until quit_app terminates the capture process.
Thresholds == (0 - 1)..(MaxAmp + 1)

InitAudio == Running /\ _AUDIO_THRESHOLD \in Thresholds

AudioReadAny == AudioRead("audio", Windows) /\ UNCHANGED hist
ClickQuit(t) == Click(t, [op |-> "quit_app", source_name |-> ""]) /\ UNCHANGED hist

\* No monitor is active here: quit_app's loop over the snapshot is empty.
QuitNoModules(t) ==
    \/ QuitSetStop(t)
    \/ QuitTerminate(t)
    \/ QuitCopy(t)
    \/ QuitClear(t)
    \/ QuitIconStop(t)

NextAudio ==
    \/ AudioThread
    \/ AudioReadAny
    \/ ClickQuit("ui1")
    \/ AcquireLock("ui1")
    \/ QuitNoModules("ui1")
    \/ ReturnPlain("ui1")
    \/ MainShutdown

SpecAudio == InitAudio /\ [][NextAudio]_vars

\* ---- SpecQuit: toggles and quit_app on two threads, at most MaxOps
\* callbacks.  The scheduler runs every thread that can take a step, and a
\* thread blocked in _lock.acquire() gets the lock when it is released
\* again and again.
QuitCallbacks == ToggleCallbacks \cup {[op |-> "quit_app", source_name |-> ""]}

ClickQuitBudget(t) == (\E c \in QuitCallbacks : Click(t, c)) /\ Budget

QuitCallback(t) ==
    \/ AcquireLock(t)
    \/ update_icon(t)
    \/ toggle_source(t)
    \/ quit_app(t)

NextQuit ==
    \/ MainShutdown
    \/ \E t \in UiThreads : ClickQuitBudget(t)
    \/ \E t \in UiThreads : QuitCallback(t)
    \/ \E t \in UiThreads : ReturnPlain(t)

FairQuit ==
    \A t \in UiThreads :
       /\ WF_vars(QuitCallback(t))
       /\ SF_vars(AcquireLock(t))

SpecQuit == InitRunning /\ [][NextQuit]_vars /\ FairQuit

\* ---- SpecMute: the mute watcher polls while menu toggles run on a tray
\* thread and the sources' mute state changes a bounded number of times; the
\* default source is known or unknown and stays as it is, pactl answers
\* get-source-mute, and the stop signal is never set.  Every thread gets to
\* run and a thread waiting for the lock gets it.
GetMutedPactlOk(t) == GetMutedPactl(t) /\ pc'[t] = "mp_acq"

MuteWatcher ==
    \/ MutePollWait("mute") /\ UNCHANGED hist
    \/ GetMutedRead("mute")
    \/ GetMutedPactlOk("mute")
    \/ MutePollCompare("mute")
    \/ update_icon("mute")

ClickToggleBudget(t) == (\E c \in ToggleCallbacks : Click(t, c)) /\ Budget

ToggleCallback(t) ==
    \/ toggle_source(t)
    \/ update_icon(t)
    \/ ReturnPlain(t)

NextMute ==
    \/ MuteWatcher
    \/ AcquireLock("mute")
    \/ ClickToggleBudget("ui1")
    \/ ToggleCallback("ui1")
    \/ AcquireLock("ui1")
    \/ ExtMuteChangesBudget

FairMute ==
    /\ WF_vars(MuteWatcher)
    /\ SF_vars(AcquireLock("mute"))
    /\ WF_vars(ToggleCallback("ui1"))
    /\ SF_vars(AcquireLock("ui1"))

SpecMute == InitQuick /\ [][NextMute]_vars /\ FairMute

\* ------------------------------------------------------------- properties
\* No tray callback is in progress.
Quiescent == \A t \in UiThreads : pc[t] = "idle"
LoadedFor(s) == {id \in mod_loaded : SourceOfModule(id) = s}
MapIds == SeqRange(DictValues(active_modules))

\* C1 as stated (I1): whenever no callback is in progress, the map has an
\* entry for s iff a module this process loaded for s is still loaded, and
\* no loaded module lacks an entry.
C1_MapIffLoaded ==
    Quiescent =>
       /\ \A s \in Sources : s \in DictKeys(active_modules) <=> LoadedFor(s) # {}
       /\ mod_loaded \subseteq MapIds

\* C1: whenever no callback is in progress, every entry of the map names a
\* module this process loaded for that source and that is still loaded (the
\* converse fails: a failed unload, or an interleaved callback, leaves a
\* module loaded without an entry).
C1_EntryImpliesLoaded ==
    Quiescent =>
       \A i \in DOMAIN active_modules :
          /\ active_modules[i][2] \in mod_loaded
          /\ SourceOfModule(active_modules[i][2]) = active_modules[i][1]

\* One entry is backed by its module; an unload has failed, and a second
\* module is left loaded without an entry.
C1_Witness ==
    /\ Quiescent
    /\ Len(active_modules) = 1
    /\ Cardinality(mod_loaded) = 2
    /\ mod_unload_req # {}

\* C2 as stated (I4): once the process has shut down, by quit_app or by the
\* event loop returning otherwise, the map is empty and every module this
\* process loaded has been issued an unload.
C2_ShutdownTeardown ==
    pc["main"] = "exited" =>
       /\ active_modules = <<>>
       /\ ModuleIds \subseteq mod_unload_req

\* The triple update_icon renders with, and the three shared fields now.
RenderArgs(t) == <<frame[t].count, frame[t].muted, frame[t].audio>>
SharedTriple == <<Len(active_modules), is_muted, _audio_active>>

SnapshotStep(t) ==
    /\ (pc[t] = "ui_snap" /\ pc'[t] # "ui_snap") =>
          /\ RenderArgs(t)' = SharedTriple
          /\ SharedTriple' = SharedTriple
    /\ (pc[t] \in {"ui_icon", "ui_title"} /\ pc'[t] \in {"ui_icon", "ui_title"}) =>
          RenderArgs(t)' = RenderArgs(t)
    /\ (pc[t] = "ui_icon" /\ pc'[t] = "ui_title") =>
          icon_icon' = create_icon(frame[t].count > 0, frame[t].audio, frame[t].muted)
    /\ (pc[t] = "ui_title" /\ pc'[t] # "ui_title") =>
          icon_title' = Title(frame[t].count)

\* C3 (I3/P3): the triple a call of update_icon captures is the value the
\* three shared fields hold together at the instant of the capture, no step
\* of any thread changes it before the call has drawn, and the icon and the
\* title the call writes are computed from that triple.
C3_SnapshotAtomicity == [][\A t \in Threads : SnapshotStep(t)]_vars

\* A call of update_icon is about to draw from a snapshot that a concurrent
\* mutation has already made stale.
C3_Witness ==
    \E t \in Threads :
       /\ pc[t] = "ui_icon"
       /\ RenderArgs(t) # SharedTriple
       /\ RenderArgs(t)[2] # is_muted

\* Where a thread is inside a pactl call, and inside update_icon's drawing.
ExternalPcs ==
    {"m_cleanup", "rs_short", "rs_desc", "rs_default", "gm_pactl", "gm_list",
     "ts_disable", "ts_enable", "oa_unload", "oa_enable", "q_unload"}
RenderPcs == {"ui_icon", "ui_title"}
WritePcs ==
    {"ts_pop", "ts_insert", "oa_clear", "oa_insert", "tl_flip", "rs_clear",
     "rs_extend", "rs_setdefault", "q_clear", "mp_cmp", "al_cmp"}

NoLockOutside == \A t \in Threads : pc[t] \in ExternalPcs \cup RenderPcs => _lock # t

\* C4 (I2): a step that changes a shared field is a step of the thread that
\* holds _lock, and no thread holds _lock while it is inside a pactl call or
\* inside update_icon's drawing.
C4_LockingDiscipline ==
    [][/\ NoLockOutside
       /\ NoLockOutside'
       /\ shared' # shared =>
             \E t \in Threads : _lock = t /\ pc[t] \in WritePcs /\ pc'[t] # pc[t]]_vars

\* One thread holds the lock in a writing block while another is inside a
\* pactl call or drawing.
C4_Witness ==
    \E t, u \in Threads :
       /\ t # u
       /\ _lock = t
       /\ pc[t] \in WritePcs
       /\ pc[u] \in ExternalPcs \cup RenderPcs

\* A logged callback in which a gateway call failed.
EnableFailed(e) ==
    /\ e.source_name \notin DictKeys(e.before.active_modules)
    /\ e.after.mod_source = e.before.mod_source
DisableFailed(e) ==
    \E id \in e.after.mod_unload_req \ e.before.mod_unload_req : id \in e.after.mod_loaded
GatewayOk(e) == ~EnableFailed(e) /\ ~DisableFailed(e)

TogglesTwice ==
    /\ Len(log) = 2
    /\ log[1].done /\ log[2].done
    /\ log[1].op = "toggle_source" /\ log[2].op = "toggle_source"
    /\ log[2].source_name = log[1].source_name
    /\ log[1].source_name \notin DictKeys(log[1].before.active_modules)
    /\ GatewayOk(log[1]) /\ GatewayOk(log[2])

\* C5 (P2): toggle_source(s) run twice in a row on an idle source s, every
\* gateway call succeeding, leaves the map without s and every other entry
\* as it was, and unloads exactly the module the first call loaded.
C5_ToggleSymmetry ==
    TogglesTwice =>
       LET e1 == log[1]
           e2 == log[2]
           loaded == ModuleId(Len(e1.after.mod_source))
       IN /\ e1.source_name \notin DictKeys(e2.after.active_modules)
          /\ e2.after.active_modules = e1.before.active_modules
          /\ e1.after.mod_loaded = e1.before.mod_loaded \cup {loaded}
          /\ e2.after.mod_unload_req \ e1.before.mod_unload_req = {loaded}
          /\ e2.after.mod_loaded = e1.before.mod_loaded

\* The two toggles ran while another source was being monitored.
C5_Witness ==
    /\ TogglesTwice
    /\ log[1].before.active_modules # <<>>
    /\ log[2].after.mod_loaded # {}

\* Where a thread is about to clear the map in a turn-everything-off block,
\* and where it is inside an unload call.
AllOffClearPcs == {"oa_clear", "q_clear"}
UnloadPcs == {"ts_disable", "oa_unload", "q_unload"}

\* The module id the unload call thread t is inside asks for.
UnloadArg(t) ==
    IF pc[t] = "ts_disable" THEN frame[t].current_id ELSE {Head(frame[t].todo)}

\* C6 (P1): whatever the map holds when a turn-everything-off block (of
\* _on_activate or of quit_app) runs, also when one has just emptied it, the
\* map is empty when the block ends; and an unload call, for an id in the
\* map or not, succeeding or failing, changes no shared field.
C6_IdempotentDisable ==
    [][/\ \A t \in UiThreads :
             (pc[t] \in AllOffClearPcs /\ pc'[t] # pc[t]) => active_modules' = <<>>
       /\ (\/ mod_unload_req' # mod_unload_req
           \/ mod_loaded' # mod_loaded
           \/ \E t \in UiThreads : pc[t] \in UnloadPcs /\ pc'[t] # pc[t])
             => shared' = shared]_vars

\* A turn-everything-off block is inside an unload call for an id that is no
\* longer in the map, another block having emptied the map and unloaded the
\* module already.
C6_Witness ==
    \E t \in UiThreads :
       /\ pc[t] \in {"oa_unload", "q_unload"}
       /\ active_modules = <<>>
       /\ UnloadArg(t) \cap MapIds = {}
       /\ UnloadArg(t) \cap mod_loaded = {}
       /\ UnloadArg(t) \subseteq mod_unload_req

\* The registry after a refresh that found A and B, default A.
RegistryAB ==
    /\ [i \in DOMAIN available_sources |-> available_sources[i].name] = <<"A", "B">>
    /\ default_source_name = "A"

\* The first click on A, the gateway loading the first module of the run.
FirstClickOnA(e) ==
    /\ e.done
    /\ e.op = "toggle_source" /\ e.source_name = "A"
    /\ e.before.active_modules = <<>>
    /\ e.before.mod_source = <<>>
    /\ e.after.mod_source = <<"A">>

\* A second click on A, the gateway unloading module 42.
SecondClickOnA(e) ==
    /\ e.done
    /\ e.op = "toggle_source" /\ e.source_name = "A"
    /\ e.before.active_modules = << <<"A", 42>> >>
    /\ 42 \in e.after.mod_unload_req
    /\ 42 \notin e.after.mod_loaded

ScenarioWith(off, on1) ==
    RegistryAB =>
       /\ (pc["main"] = "m_run" /\ log = <<>> /\ pc["ui1"] = "idle") =>
             Len(active_modules) = 0 /\ icon_title = off
       /\ \A i \in DOMAIN log :
             FirstClickOnA(log[i]) =>
                /\ log[i].after.active_modules = << <<"A", 42>> >>
                /\ log[i].after.icon_title = on1
                /\ log[i].after.icon_icon.badge
       /\ (Len(log) = 2 /\ FirstClickOnA(log[1]) /\ SecondClickOnA(log[2])) =>
             /\ log[2].after.active_modules = <<>>
             /\ log[2].after.icon_title = off
             /\ ~log[2].after.icon_icon.badge

\* C7 as stated: with sources A and B, default A, the count is 0 and the
\* title "Monitoring: OFF" after the refresh; a click on A with handle 42
\* gives the map {A:42}, the title "Monitoring: ON (1 active)" and the
\* badge; a second click on A, unloading 42, gives {} and "Monitoring: OFF".
C7_ScenarioSpecTitles == ScenarioWith("Monitoring: OFF", "Monitoring: ON (1 active)")

\* C7: the same scenario with the titles update_icon sets, "Mic Monitor:
\* OFF" and "Mic Monitor: ON (1 active)".
C7_Scenario == ScenarioWith("Mic Monitor: OFF", "Mic Monitor: ON (1 active)")

\* Both clicks of the scenario have run.
C7_Witness ==
    /\ RegistryAB
    /\ Len(log) = 2
    /\ FirstClickOnA(log[1])
    /\ SecondClickOnA(log[2])

\* Where an operation has finished: a callback or the refresh thread about
\* to return, a watcher loop back at its wait or read, main after its
\* startup refresh.
RestPcs == {"return", "mp_wait", "al_read", "m_start_mute"}
NeverRender == {"toggle_left_click_setting", "quit_app"}

\* C8 as stated: every operation that changed a shared field has called
\* update_icon after the change when it finishes.
C8_EveryMutatorRenders ==
    \A t \in Threads : pc[t] \in RestPcs => ~frame[t].dirty

\* C8: toggle_source, _on_activate, refresh_sources called with the icon
\* and the two watcher loops have called update_icon after their last change
\* of a shared field when they finish; toggle_left_click_setting, quit_app
\* and the startup refresh_sources() without an icon never call it.
C8_MutatorsRender ==
    \A t \in Threads :
       /\ (pc[t] \in RestPcs /\ frame[t].dirty) =>
             \/ frame[t].op \in NeverRender
             \/ frame[t].op = "refresh_sources" /\ ~frame[t].icon
       /\ pc[t] \in {"ui_acq", "ui_snap"} \cup RenderPcs =>
             /\ frame[t].op \notin NeverRender
             /\ frame[t].icon

\* toggle_source has changed the map and drawn the change.
C8_Witness ==
    \E t \in UiThreads :
       /\ pc[t] = "return"
       /\ frame[t].op = "toggle_source"
       /\ ~frame[t].dirty
       /\ active_modules # <<>>
       /\ icon_title = Title(Len(active_modules))
       /\ icon_icon.badge

\* The level of a chunk, where it is a whole number; and the comparison by
\* the whole part of the root of the mean square.
IntRms(samples) ==
    {r \in 0..MaxAmp : SumSquares(samples) = Len(samples) * r * r}
FloorRoot(x) == CHOOSE r \in 0..x : r * r <= x /\ x < (r + 1) * (r + 1)
RmsAbove(samples, threshold) ==
    LET q == SumSquares(samples) \div Len(samples)
        rest == SumSquares(samples) % Len(samples)
        r == FloorRoot(q)
    IN \/ threshold < 0
       \/ r > threshold
       \/ r = threshold /\ (q > threshold * threshold \/ rest > 0)

\* The audio watcher has stored its verdict on the chunk it read last.
Judged == frame["audio"].samples # <<>> /\ pc["audio"] \notin {"al_acq", "al_cmp"}

\* C9 (P4): the activity flag the audio watcher stores for a chunk is true
\* exactly when the chunk's RMS is strictly greater than the threshold: false
\* at RMS = threshold and at threshold - 1, true at threshold + 1.
C9_ThresholdBoundary ==
    Judged =>
       /\ _audio_active = RmsAbove(frame["audio"].samples, _AUDIO_THRESHOLD)
       /\ \A r \in IntRms(frame["audio"].samples) :
             /\ r = _AUDIO_THRESHOLD => ~_audio_active
             /\ r = _AUDIO_THRESHOLD - 1 => ~_audio_active
             /\ r = _AUDIO_THRESHOLD + 1 => _audio_active
             /\ _audio_active <=> r > _AUDIO_THRESHOLD

\* A chunk of two samples whose RMS is the threshold was judged inactive.
C9_Witness ==
    /\ Judged
    /\ Len(frame["audio"].samples) = 2
    /\ _AUDIO_THRESHOLD > 0
    /\ _AUDIO_THRESHOLD \in IntRms(frame["audio"].samples)
    /\ ~_audio_active

\* The ids of the snapshot quit_app took.
QuitSnapshotIds(t) == SeqRange(DictValues(frame[t].modules_to_unload))

\* C10: once quit_app has started it reaches icon.stop() and returns,
\* whichever of its unload calls fail; by then it has issued an unload for
\* every module of its snapshot, and its clear leaves the map empty.
C10_ShutdownCompletes ==
    /\ \A t \in UiThreads :
          (pc[t] = "q_setstop") ~> (pc[t] = "return" /\ icon_stopped)
    /\ [](\A t \in UiThreads :
             pc[t] \in {"q_acq2", "q_clear", "q_stop"} =>
                QuitSnapshotIds(t) \subseteq mod_unload_req)
    /\ [][\A t \in UiThreads :
             (pc[t] = "q_clear" /\ pc'[t] = "q_stop") => active_modules' = <<>>]_vars

\* quit_app has called icon.stop() although the unloads of both modules of
\* its snapshot failed.
C10_Witness ==
    \E t \in UiThreads :
       /\ pc[t] = "return"
       /\ frame[t].op = "quit_app"
       /\ icon_stopped
       /\ Cardinality(QuitSnapshotIds(t)) = 2
       /\ QuitSnapshotIds(t) \subseteq mod_loaded

\* A logged toggle_source on a source that had an entry.
ToggleOfMonitoring(e) ==
    /\ e.done
    /\ e.op = "toggle_source"
    /\ e.source_name \in DictKeys(e.before.active_modules)

\* C11: toggle_source on a monitoring source, run with nothing interleaved,
\* leaves the map without that source and with every other entry as it was,
\* whether disable_monitor succeeded or failed; it issues the unload for the
\* handle the entry held and loads nothing.
C11_UnconditionalRemoval ==
    \A i \in DOMAIN log :
       ToggleOfMonitoring(log[i]) =>
          LET e == log[i] IN
             /\ e.source_name \notin DictKeys(e.after.active_modules)
             /\ e.after.active_modules = DictPop(e.before.active_modules, e.source_name)
             /\ e.after.mod_unload_req =
                   e.before.mod_unload_req
                      \cup DictGet(e.before.active_modules, e.source_name)
             /\ e.after.mod_source = e.before.mod_source

\* A toggle whose unload failed has removed its entry and left another.
C11_Witness ==
    \E i \in DOMAIN log :
       /\ ToggleOfMonitoring(log[i])
       /\ DisableFailed(log[i])
       /\ Len(log[i].before.active_modules) = 2
       /\ Len(log[i].after.active_modules) = 1

\* A logged toggle_source on a source that had no entry.
ToggleOfIdle(e) ==
    /\ e.done
    /\ e.op = "toggle_source"
    /\ e.source_name \notin DictKeys(e.before.active_modules)

\* What the log shows of a toggle_source on an idle source.
IdleToggleLogged ==
    \A i \in DOMAIN log :
       ToggleOfIdle(log[i]) =>
          LET e == log[i]
              new_id == ModuleId(Len(e.after.mod_source))
          IN IF EnableFailed(e)
             THEN /\ e.after.shared = e.before.shared
                  /\ e.after.mod_loaded = e.before.mod_loaded
                  /\ e.after.mod_unload_req = e.before.mod_unload_req
             ELSE /\ e.after.mod_source = Append(e.before.mod_source, e.source_name)
                  /\ e.after.active_modules =
                        Append(e.before.active_modules, <<e.source_name, new_id>>)
                  /\ new_id \in e.after.mod_loaded \ e.before.mod_loaded
                  /\ e.after.mod_unload_req = e.before.mod_unload_req

\* toggle_source goes from a load that gave no handle straight to update_icon
\* and returns only from update_icon's last write, which shows the current
\* state.
IdleToggleRenders(t) ==
    /\ (pc[t] = "ts_enable" /\ pc'[t] # "ts_enable") =>
          IF mod_source' = mod_source
          THEN pc'[t] = "ui_acq" /\ shared' = shared
          ELSE pc'[t] = "ts_acq3"
    /\ (frame[t].op = "toggle_source" /\ pc[t] # "return" /\ pc'[t] = "return") =>
          /\ pc[t] = "ui_title"
          /\ icon_title' = Title(Len(active_modules))
          /\ icon_icon' = create_icon(Len(active_modules) > 0, _audio_active, is_muted)

\* C12: toggle_source on an idle source whose load returns no handle adds no
\* entry, leaves every shared field as it was and still runs update_icon
\* before it returns; when the load returns a handle, exactly that handle is
\* inserted for that source and nothing else changes in the map.
C12_EnableFailureNoChange ==
    [][IdleToggleLogged' /\ \A t \in UiThreads : IdleToggleRenders(t)]_vars

\* A failed load has been logged while another source was being monitored,
\* and the render after it has run.
C12_Witness ==
    \E i \in DOMAIN log :
       /\ ToggleOfIdle(log[i])
       /\ EnableFailed(log[i])
       /\ log[i].before.active_modules # <<>>
       /\ icon_title = Title(Len(active_modules))

\* A logged _on_activate that found the preference off.
GatedClick(e) ==
    /\ e.done
    /\ e.op = "_on_activate"
    /\ ~e.before.shared[6]

\* The logged states before and after a gated click are the same.
GatedClickLogged ==
    \A i \in DOMAIN log :
       GatedClick(log[i]) =>
          /\ log[i].after.shared = log[i].before.shared
          /\ log[i].after.mod_source = log[i].before.mod_source
          /\ log[i].after.mod_loaded = log[i].before.mod_loaded
          /\ log[i].after.mod_unload_req = log[i].before.mod_unload_req

\* C13: the left-click preference is False until the first callback and
\* changes only in toggle_left_click_setting; an _on_activate that finds it
\* False returns at once, issuing no load and no unload and leaving the map
\* and every other shared field as they were.
C13_QuickToggleGated ==
    [][/\ GatedClickLogged'
       /\ (log = <<>> => ~left_click_toggle)
       /\ (left_click_toggle' # left_click_toggle =>
              \E t \in UiThreads :
                 /\ frame[t].op = "toggle_left_click_setting"
                 /\ pc[t] = "tl_flip" /\ pc'[t] # "tl_flip")
       /\ \A t \in UiThreads :
             (pc[t] = "oa_read" /\ pc'[t] # "oa_read" /\ ~left_click_toggle) =>
                pc'[t] = "return"]_vars

\* A click with the preference off has been handled while a source was
\* being monitored and a default source was known.
C13_Witness ==
    \E i \in DOMAIN log :
       /\ GatedClick(log[i])
       /\ log[i].before.active_modules # <<>>
       /\ log[i].before.shared[3] # ""

AllOffSnapshotIds(t) == SeqRange(DictValues(frame[t].modules_to_unload))

\* C14 as stated: also when other threads change the map between the quick
\* toggle's reads, the all-off branch has issued an unload for every handle
\* in the map it is about to empty.
C14_AllOffUnloadsWholeMap ==
    \A t \in UiThreads :
       (frame[t].op = "_on_activate" /\ pc[t] = "oa_clear" /\ _lock = t) =>
          MapIds \subseteq mod_unload_req

QuickToggleStep(t) ==
    /\ (pc[t] = "oa_read" /\ pc'[t] # "oa_read" /\ left_click_toggle) =>
          /\ pc'[t] = IF Len(active_modules) > 0 THEN "oa_acq2"
                      ELSE IF default_source_name # "" THEN "oa_enable"
                      ELSE "ui_acq"
          /\ frame'[t].default = default_source_name
          /\ UNCHANGED <<shared, server>>
    /\ (pc[t] = "oa_copy" /\ pc'[t] # "oa_copy") =>
          frame'[t].modules_to_unload = active_modules
    /\ (pc[t] = "oa_clear" /\ pc'[t] # "oa_clear") =>
          /\ AllOffSnapshotIds(t) \subseteq mod_unload_req
          /\ active_modules' = <<>>
          /\ UNCHANGED server
    /\ (pc[t] = "oa_enable" /\ pc'[t] # "oa_enable") =>
          /\ mod_unload_req' = mod_unload_req
          /\ UNCHANGED shared
          /\ IF pc'[t] = "oa_acq4"
             THEN /\ mod_source' = Append(mod_source, frame[t].default)
                  /\ frame'[t].new_id = {ModuleId(Len(mod_source'))}
             ELSE pc'[t] = "ui_acq" /\ UNCHANGED server
    /\ (pc[t] = "oa_insert" /\ pc'[t] # "oa_insert") =>
          /\ \E new_id \in frame[t].new_id :
                active_modules' = DictSet(active_modules, frame[t].default, new_id)
          /\ UNCHANGED server
    /\ (frame[t].op = "_on_activate" /\ pc[t] \in RenderPcs /\ pc'[t] # pc[t]) =>
          UNCHANGED <<active_modules, server>>

\* C14 (amended): with the preference on, _on_activate chooses its branch
\* from the map and the default name it read in its first locked block.  In
\* the all-off branch it issues an unload for every handle of the copy of the
\* map it took in its second locked block, a failed unload not stopping the
\* others, and then empties the map; in the other branch it loads a module for
\* the default source it read and inserts the handle if one was returned, and
\* does nothing but render if the default was unknown.
C14_QuickToggle ==
    [][\A t \in UiThreads : QuickToggleStep(t)]_vars

\* A quick toggle is about to empty a map that another thread changed after
\* the copy was taken, one unload of the copy having failed.
C14_Witness ==
    \E t \in UiThreads :
       /\ frame[t].op = "_on_activate" /\ pc[t] = "oa_clear" /\ _lock = t
       /\ active_modules # frame[t].modules_to_unload
       /\ AllOffSnapshotIds(t) \cap mod_loaded # {}

\* A quick toggle found the default source unknown and went on to render.
C14_WitnessUnknownDefault ==
    \E t \in UiThreads :
       /\ frame[t].op = "_on_activate" /\ pc[t] = "ui_snap"
       /\ frame[t].lct /\ ~frame[t].has_active
       /\ default_source_name = ""

\* The watcher threads, the pc of their locked compare-and-store block, the
\* pc their loop goes back to, and the value they observed in this tick.
Watchers == {"mute", "audio"}
ComparePc(w) == IF w = "mute" THEN "mp_cmp" ELSE "al_cmp"
LoopPc(w) == IF w = "mute" THEN "mp_wait" ELSE "al_read"
Observed(w) == IF w = "mute" THEN frame[w].new_muted ELSE frame[w].new_active
Flag(w) == IF w = "mute" THEN is_muted ELSE _audio_active

WatcherStep(w) ==
    /\ (pc[w] = ComparePc(w) /\ pc'[w] # pc[w]) =>
          /\ _lock = w
          /\ IF Observed(w) # Flag(w)
             THEN /\ pc'[w] = "ui_acq"
                  /\ Flag(w)' = Observed(w)
                  /\ frame'[w].changed
             ELSE /\ pc'[w] = LoopPc(w)
                  /\ UNCHANGED <<shared, iconvars>>
    /\ (pc[w] # "ui_acq" /\ pc'[w] = "ui_acq") =>
          /\ pc[w] = ComparePc(w)
          /\ Flag(w)' # Flag(w)
    /\ (pc[w] \in {"ui_acq", "ui_snap"} \cup RenderPcs) => frame[w].changed

\* C15: a watcher enters update_icon only from the locked block of a tick in
\* which the value it observed differed from the stored flag and the flag was
\* set to it; a tick whose value equals the stored flag goes back to the head
\* of the loop with no render and no shared field changed.
C15_RenderOnlyOnChange ==
    [][\A w \in Watchers : WatcherStep(w)]_vars

\* Both kinds of tick have happened: the mute watcher renders after a change
\* while the audio watcher is back at its read with its flag set.
C15_Witness ==
    /\ pc["mute"] = "ui_icon" /\ frame["mute"].changed /\ is_muted
    /\ pc["audio"] = "al_read" /\ _audio_active

\* C16 as stated: after quit_app the capture subprocess has been terminated,
\* so that the audio watcher's read returns no data and its loop exits; in
\* particular the process never exits, after quit_app, with the capture
\* subprocess still running, and a mute watcher that saw the stop signal has
\* left its loop.
C16_LoopsExitAfterQuit ==
    /\ pc["main"] = "exited" => _audio_proc # "running"
    /\ pc["mute"] = "mp_done" => _mute_poll_stop

\* The registry, the pcs of refresh_sources' locked block, and the pcs in
\* which a reader copies from the registry.
Registry == <<available_sources, default_source_name>>
InstallPcs == {"rs_clear", "rs_extend", "rs_setdefault"}
MidInstallPcs == {"rs_extend", "rs_setdefault"}
ReaderPcs == {"bm_snap", "oa_read", "gm_read"}

InstallerHoldsLock == \A t \in Threads : pc[t] \in InstallPcs => _lock = t

RegistryStep(t) ==
    /\ (pc[t] = "rs_setdefault" /\ pc'[t] # pc[t]) =>
          Registry' = <<frame[t].sources, frame[t].default>>
    /\ (pc[t] \in {"rs_clear", "rs_extend"} /\ pc'[t] # pc[t]) =>
          /\ pc'[t] \in MidInstallPcs
          /\ _lock' = t
          /\ UNCHANGED <<frame[t].sources, frame[t].default>>
    /\ (pc[t] \in ReaderPcs /\ pc'[t] # pc[t]) =>
          /\ _lock = t
          /\ \A u \in Threads : pc[u] \notin MidInstallPcs
          /\ UNCHANGED Registry
          /\ pc[t] = "bm_snap" =>
                <<frame'[t].sources, frame'[t].default>> = Registry
          /\ pc[t] = "oa_read" => frame'[t].default = default_source_name
          /\ pc[t] = "gm_read" => frame'[t].src = default_source_name

\* C17: with several refresh_sources calls and readers running at once, the
\* source list and the default name change only inside one locked block of
\* refresh_sources, which ends with both set to what that one call fetched;
\* build_menu_items, _on_activate and get_default_source_muted copy them
\* while holding the lock, when no refresh is inside that block, so what
\* they copy is the list and default one refresh installed together.
C17_RegistrySnapshot ==
    [][/\ InstallerHoldsLock /\ InstallerHoldsLock'
       /\ \A t \in Threads : RegistryStep(t)
       /\ (Registry' # Registry =>
              \E t \in Threads : pc[t] \in InstallPcs /\ _lock = t /\ pc'[t] # pc[t])]_vars

\* build_menu_items copies a registry installed by one refresh (no sources,
\* no default) while a second refresh that fetched both sources and a default
\* waits for the lock.
C17_Witness ==
    /\ pc["ui1"] = "bm_snap" /\ _lock = "ui1"
    /\ Registry = <<<<>>, "">>
    /\ \E r \in RefreshThreads :
          /\ pc[r] = "rs_acq"
          /\ frame[r].sources # <<>>
          /\ frame[r].default # ""

\* The mute state the sound server holds for the registered default source.
MuteOfDefault == default_source_name # "" /\ default_source_name \in ext_muted

\* C18: once the default source and its mute state no longer change, with
\* pactl answering the mute query and the stop signal not set, the mute flag
\* eventually equals the default source's mute state and stays equal; when
\* the default source is unknown the flag becomes False and the watcher makes
\* no pactl call.
C18_MuteConvergence ==
    /\ <>[](is_muted = MuteOfDefault)
    /\ [](frame["mute"].src = "" => pc["mute"] \notin {"gm_pactl", "gm_list"})

\* The watcher has stored a mute it found and is back at its wait.
C18_Witness ==
    /\ is_muted /\ MuteOfDefault
    /\ pc["mute"] = "mp_wait"

\* Every callback and refresh has returned, the watchers are at the head of
\* their loops, and the tray is still shown.
Settled ==
    /\ pc["main"] = "m_run" /\ ~icon_stopped
    /\ \A t \in UiThreads \cup RefreshThreads : pc[t] = "idle"
    /\ pc["mute"] = "mp_wait"
    /\ pc["audio"] \in {"al_read", "al_done"}

\* C19 as stated: once every mutator has finished and no render is in
\* progress, the icon and the title last written are those of the current
\* count of monitored sources, mute flag and activity flag.
C19_DisplayCurrent ==
    Settled =>
       /\ icon_icon = create_icon(Len(active_modules) > 0, _audio_active, is_muted)
       /\ icon_title = Title(Len(active_modules))

\* Thread t has called unload-module for a handle it read from the map and
\* has not yet made the update of the map that follows: toggle_source between
\* its unload and its pop, the teardown of _on_activate and quit_app between
\* their first unload and their clear.
InUnloadWindow(t) ==
    \/ pc[t] \in {"ts_acq2", "ts_pop"}
    \/ /\ pc[t] \in {"oa_unload", "q_unload"}
       /\ Len(frame[t].todo) < Len(frame[t].modules_to_unload)
    \/ /\ pc[t] \in {"oa_acq3", "oa_clear", "q_acq2", "q_clear"}
       /\ frame[t].modules_to_unload # <<>>

\* C20: under any interleaving of toggle_source, _on_activate and quit_app
\* with any gateway outcomes, whenever no thread is between an unload call
\* and its following map update, every entry of the map holds a handle that
\* load-module returned for the entry's own source and whose module is still
\* loaded.
C20_NoStaleHandle ==
    (\A t \in UiThreads : ~InUnloadWindow(t)) =>
       \A i \in DOMAIN active_modules :
          LET s == active_modules[i][1]
              id == active_modules[i][2]
          IN /\ id \in ModuleIds
             /\ SourceOfModule(id) = s
             /\ id \in mod_loaded

\* Callbacks are in progress on both threads, none of them inside an unload
\* window: one has read the handle it is about to unload, the other is about to
\* load a module, an earlier unload has failed, and the map has an entry.
C20_Witness ==
    /\ \A t \in UiThreads : ~InUnloadWindow(t)
    /\ \E t, u \in UiThreads :
          /\ pc[t] = "ts_disable"
          /\ frame[t].current_id \subseteq MapIds
          /\ pc[u] \in {"ts_enable", "oa_enable"}
    /\ active_modules # <<>>
    /\ mod_unload_req \cap mod_loaded # {}

====
